---- MODULE Spec2Model ----
(***************************************************************************)
(* A model of the DatoCMS AI-translation plugin:                           *)
(*   - ensureArrayLengthsMatch and the batching loop (pure functions),     *)
(*   - translateStructuredTextValue (StructuredTextTranslation.ts),        *)
(*   - translateRecordFields with runPool / queueFieldWrite / flushWrites  *)
(*     (clients.ts).                                                       *)
(* Every step of an async function between two awaits is one action.       *)
(***************************************************************************)
EXTENDS Integers, Sequences, FiniteSets, TLC

VARIABLES
    \* ---- pure-function harness ----
    fnPc,            \* "off" | "ready" | "done"
    fnArgs,          \* the arguments drawn by Init
    fnRet,           \* the value returned
    \* ---- translateStructuredTextValue ----
    stPc,            \* "off" | "called" | "awaitChat" | "awaitBlocks" | "done"
    initialValue,    \* the argument initialValue
    batchIx,         \* position of `for (const slice of batches)` (1-based)
    allTranslated,   \* const allTranslated: string[]
    reconstructed,   \* reconstructedObject, kept across the block await
    result,          \* how the call ended: returned value or thrown
    requested,       \* history: batch indexes a chatComplete was issued for
    responses,       \* history: outcome of each settled chatComplete
    handed,          \* history: the lists handed to reconstructObject
    blockCalls,      \* history: number of translateFieldValue calls (blocks)
    onCompletes,     \* history: number of streamCallbacks.onComplete() calls
    threw,           \* history: the step that threw on this run, or "none"
    lateRequests,    \* history: the kinds of remote request issued while
                     \* streamCallbacks.checkCancellation() answered true
    \* ---- translateRecordFields ----
    pc,              \* where the async function stands: "off" | "field" |
                     \* "pool" | "fieldFlush" | "finalFlush" | "done" |
                     \* "returned"
    fields,          \* per field of the item type: is it translated at all
    targetLocales,   \* number of target locales (locale k is 1..n)
    fieldIx,         \* position of `for (const field of fieldsArray)`
    cancelRequested, \* what options.checkCancellation() answers now
    mounted,         \* ctx.formValues is there
    jobs,            \* const jobs: Job[] of the current field
    cursor,          \* runPool's shared cursor `let i`
    workers,         \* runPool's workers: the jobs awaited (line 114) and
                     \* the number of workers in sleep(60) (line 115)
    pendingWrites,   \* the Map, as its keys in insertion order
    writeTimer,      \* writeTimer != null
    timeouts,        \* window timeouts set and not fired yet
    flushes,         \* flushWrites activations inside their for loop
    announced,       \* history: keys given to options.onStart
    calls,           \* history: translateFieldValue calls of the jobs (n:
                     \* the how-manieth start of the job of that key)
    warned,          \* history: keys the failure toast was raised for
    queued,          \* history: keys given to queueFieldWrite
    writeCount,      \* history: ctx.setFieldValue calls per key
    faults,          \* history: calls of the host or the translator that
                     \* failed so far
    \* ---- chatComplete ----
    ccPc,            \* "off" | "fetch" | "backoff" | "text" | "json" | "done"
    attempt,         \* the loop variable `attempt`
    fetches,         \* history: number of fetch() calls made
    outcomes,        \* history: how each fetch ended (status or failure)
    waits,           \* history: the delays given to setTimeout, in ms
    ccResult,        \* "pending" | "string" | "thrown"
    \* ---- translateLarge ----
    tlPc,            \* "off" | "running" | "done"
    textLength,      \* text.length
    tlCursor,        \* the shared cursor `let i`
    tlWorkers,       \* the workers: chunk indexes awaited (line 26) and
                     \* the number of workers in the pacing sleep (line 28)
    out,             \* const out: string[] (0-based idx kept as idx + 1)
    sent,            \* history: chat calls made per chunk
    arrivals,        \* history: chunk indexes in the order chat resolved
    tlResult         \* how the call ended: the joined pieces, or thrown

fnVars == <<fnPc, fnArgs, fnRet>>
stVars == <<stPc, initialValue, batchIx, allTranslated, reconstructed, result,
            requested, responses, handed, blockCalls, onCompletes, threw,
            lateRequests>>
rfVars == <<pc, fields, targetLocales, fieldIx, cancelRequested, mounted, jobs,
            cursor, workers, pendingWrites, writeTimer, timeouts, flushes,
            announced, calls, warned, queued, writeCount, faults>>
ccVars == <<ccPc, attempt, fetches, outcomes, waits, ccResult>>
tlVars == <<tlPc, textLength, tlCursor, tlWorkers, out, sent, arrivals,
            tlResult>>
vars == <<fnVars, stVars, rfVars, ccVars, tlVars>>

(***************************************************************************)
(* Bounds of the model.                                                    *)
(***************************************************************************)
MaxNodes == 3        \* nodes of a structured-text document
MaxLen == 3          \* length of a list given to a pure function
MaxFields == 2       \* fields of the item type
MaxLocales == 4      \* target locales
MaxLoad == 4         \* (field, locale) jobs plus failing calls of one run
MaxChunks == 4       \* chunks of the text given to translateLarge

(***************************************************************************)
(* Strings.  A string is its content: a body token and its length.  The    *)
(* long strings that drive batching cannot be spelled out, so a string is  *)
(* the record of what the code reads of it: length, and whether trim()     *)
(* leaves anything.  b/j tell the strings of a remote response apart.      *)
(***************************************************************************)
Str(body, len) == [body |-> body, len |-> len, b |-> 0, j |-> 0]
EmptyStr == Str("", 0)
Translated(b, j) == [body |-> "tr", len |-> 7, b |-> b, j |-> j]

\* val.trim(): whitespace-only strings collapse to ''.
Trim(val) == IF val.body \in {"", " "} THEN EmptyStr ELSE val

\* The text values a document or a list is drawn from: '', ' ', short and
\* long words, and one string above the batch threshold.
TextChoices == { EmptyStr, Str(" ", 1), Str("a", 2400), Str("b", 3000),
                 Str("c", 5000) }

RECURSIVE SumLen(_)
SumLen(s) == IF s = <<>> THEN 0 ELSE Head(s).len + SumLen(Tail(s))

RECURSIVE Flatten(_)
Flatten(ss) == IF ss = <<>> THEN <<>> ELSE Head(ss) \o Flatten(Tail(ss))

SeqsUpTo(S, n) == UNION { [1..k -> S] : k \in 0..n }

(***************************************************************************)
(* ensureArrayLengthsMatch (StructuredTextTranslation.ts 66-85)            *)
(***************************************************************************)
ensureArrayLengthsMatch_NoTruncate(originalValues, translatedValues) ==
    IF Len(translatedValues) < Len(originalValues)
    THEN translatedValues \o
         [i \in 1..(Len(originalValues) - Len(translatedValues)) |->
            LET val == originalValues[Len(translatedValues) + i]
            IN  IF Trim(val) = EmptyStr THEN EmptyStr ELSE val]
    ELSE translatedValues

ensureArrayLengthsMatch(originalValues, translatedValues) ==
    IF Len(originalValues) = Len(translatedValues)
    THEN translatedValues
    ELSE IF Len(translatedValues) < Len(originalValues)
    THEN translatedValues \o
         [i \in 1..(Len(originalValues) - Len(translatedValues)) |->
            LET val == originalValues[Len(translatedValues) + i]
            IN  IF Trim(val) = EmptyStr THEN EmptyStr ELSE val]
    ELSE SubSeq(translatedValues, 1, Len(originalValues))

(***************************************************************************)
(* The batching loop (StructuredTextTranslation.ts 186-201).               *)
(* BatchLoop is the loop body folded over the rest of textValues with the  *)
(* locals batches, current, currentLen; the trailing push is line 201.     *)
(***************************************************************************)
BatchCharLimit == 4800

RECURSIVE BatchLoop(_, _, _, _)
BatchLoop(rest, batches, current, currentLen) ==
    IF rest = <<>>
    THEN IF Len(current) > 0 THEN Append(batches, current) ELSE batches
    ELSE LET v == Head(rest)
             estimated == currentLen + v.len
         IN  IF estimated > BatchCharLimit /\ Len(current) > 0
             THEN BatchLoop(Tail(rest), Append(batches, current), <<v>>, v.len)
             ELSE BatchLoop(Tail(rest), batches, Append(current, v), estimated)

RECURSIVE BatchLoop_DropOverflowing(_, _, _, _)
BatchLoop_DropOverflowing(rest, batches, current, currentLen) ==
    IF rest = <<>>
    THEN IF Len(current) > 0 THEN Append(batches, current) ELSE batches
    ELSE LET v == Head(rest)
             estimated == currentLen + v.len
         IN  IF estimated > BatchCharLimit /\ Len(current) > 0
             THEN BatchLoop_DropOverflowing(Tail(rest), Append(batches, current),
                                            <<>>, 0)
             ELSE BatchLoop_DropOverflowing(Tail(rest), batches,
                                            Append(current, v), estimated)

Batches_DropOverflowing(textValues) ==
    BatchLoop_DropOverflowing(textValues, <<>>, <<>>, 0)

Batches(textValues) == BatchLoop(textValues, <<>>, <<>>, 0)

(***************************************************************************)
(* Documents.  A node is a block node or a text-bearing node with one text *)
(* leaf.  originalIndex is 0-based as in the source; -1 stands for an      *)
(* absent originalIndex key.  A value is a bare node array, an envelope    *)
(* {document:{children}, schema}, or something that is neither.            *)
(***************************************************************************)
NoIndex == -1

BlockNode == [type |-> "block", hasId |-> TRUE, value |-> EmptyStr,
              originalIndex |-> NoIndex, translated |-> FALSE]
TextNode(t) == [type |-> "paragraph", hasId |-> TRUE, value |-> t,
                originalIndex |-> NoIndex, translated |-> FALSE]
NodeChoices == {BlockNode} \cup { TextNode(t) : t \in TextChoices }

Value(shape, children) == [shape |-> shape, children |-> children]
Undefined == Value("undefined", <<>>)

Returned(v) == [kind |-> "returned", value |-> v]
Thrown == [kind |-> "thrown", value |-> Undefined]
Pending == [kind |-> "pending", value |-> Undefined]

Indexes(s) == 1..Len(s)
Range(f) == { f[i] : i \in DOMAIN f }

\* the indexes i >= from of the nodes of one kind, in order (filter / reduce)
RECURSIVE SelectIx(_, _, _)
SelectIx(s, from, type) ==
    IF from > Len(s) THEN <<>>
    ELSE IF (s[from].type = "block") = (type = "block")
         THEN <<from>> \o SelectIx(s, from + 1, type)
         ELSE SelectIx(s, from + 1, type)

\* ./utils removeIds: a copy with every id key removed
removeIds(nodes) == [i \in Indexes(nodes) |-> [nodes[i] EXCEPT !.hasId = FALSE]]

\* lines 133-141: the block nodes, each tagged with its pre-filter index
blockNodesOf(noIdFieldValue) ==
    LET ix == SelectIx(noIdFieldValue, 1, "block")
    IN  [k \in Indexes(ix) |->
            [noIdFieldValue[ix[k]] EXCEPT !.originalIndex = ix[k] - 1]]

\* lines 144-146: the non-block nodes in order
fieldValueWithoutBlocksOf(noIdFieldValue) ==
    LET ix == SelectIx(noIdFieldValue, 1, "paragraph")
    IN  [k \in Indexes(ix) |-> noIdFieldValue[ix[k]]]

\* ./utils extractTextValues: the text leaves in traversal order
extractTextValues(nodes) == [i \in Indexes(nodes) |-> nodes[i].value]

\* ./utils reconstructObject: the k-th text leaf replaced by values[k]
reconstructObject(nodes, values) ==
    [i \in Indexes(nodes) |->
        [nodes[i] EXCEPT !.value = IF i <= Len(values) THEN values[i]
                                   ELSE Str("undefined", 9)]]

\* ./utils insertObjectAtIndex: node ends up at position index (0-based,
\* clamped to the bounds of the sequence)
insertObjectAtIndex(arr, node, index) ==
    LET at == IF index < 0 THEN 0
              ELSE IF index > Len(arr) THEN Len(arr) ELSE index
    IN  SubSeq(arr, 1, at) \o <<node>> \o SubSeq(arr, at + 1, Len(arr))

\* TranslateField translateFieldValue on the block list ('rich_text'): the
\* blocks translated, in order, each originalIndex kept
translateFieldValue(blocks) ==
    [i \in Indexes(blocks) |-> [blocks[i] EXCEPT !.translated = TRUE]]

\* lines 116-119: the envelope is unwrapped when it has children
Unwrap(v) ==
    IF v.shape = "envelope" /\ Len(v.children) > 0
    THEN Value("array", v.children)
    ELSE v

isAPIResponse == initialValue.shape = "envelope" /\ Len(initialValue.children) > 0

\* the local fieldValue after lines 113-119
fieldValue == Unwrap(initialValue)

noIdFieldValue == removeIds(fieldValue.children)
blockNodes == blockNodesOf(noIdFieldValue)
fieldValueWithoutBlocks == fieldValueWithoutBlocksOf(noIdFieldValue)
textValues == extractTextValues(fieldValueWithoutBlocks)
batches == Batches(textValues)

\* InsertBlocks with every block appended instead of inserted at its index
RECURSIVE InsertBlocks_Append(_, _)
InsertBlocks_Append(acc, nodes) ==
    IF nodes = <<>> THEN acc
    ELSE InsertBlocks_Append(
            IF Head(nodes).originalIndex # NoIndex
            THEN Append(acc, Head(nodes))
            ELSE acc,
            Tail(nodes))

\* lines 282-290: the translated blocks inserted one after the other
RECURSIVE InsertBlocks(_, _)
InsertBlocks(acc, nodes) ==
    IF nodes = <<>> THEN acc
    ELSE InsertBlocks(
            IF Head(nodes).originalIndex # NoIndex
            THEN insertObjectAtIndex(acc, Head(nodes), Head(nodes).originalIndex)
            ELSE acc,
            Tail(nodes))

\* lines 294-309: originalIndex removed, the envelope put back
Finish(finalReconstructedObject) ==
    LET cleanedReconstructedObject ==
            [i \in Indexes(finalReconstructedObject) |->
                [finalReconstructedObject[i] EXCEPT !.originalIndex = NoIndex]]
    IN  Value(IF isAPIResponse THEN "envelope" ELSE "array",
              cleanedReconstructedObject)

\* a remote response that parses as an array of m strings for batch b
ResponseArray(b, m) == [j \in 1..m |-> Translated(b, j)]

(***************************************************************************)
(* Pure-function harness: Init draws the arguments, one action applies the *)
(* function.                                                               *)
(***************************************************************************)
FnOff == fnPc = "off" /\ fnArgs = <<>> /\ fnRet = <<>>

StOff ==
    /\ stPc = "off"
    /\ initialValue = Value("null", <<>>)
    /\ batchIx = 0
    /\ allTranslated = <<>>
    /\ reconstructed = <<>>
    /\ result = Pending
    /\ requested = <<>>
    /\ responses = <<>>
    /\ handed = <<>>
    /\ blockCalls = 0
    /\ onCompletes = 0
    /\ threw = "none"
    /\ lateRequests = {}

\* a pool as wide as the longest job list
PoolConcurrency_JobCount == MaxLocales

PoolConcurrency == 3

\* the key `${field.attributes.api_key}.${locale}` of a (field, locale)
Key(f, l) == <<f, l>>
Keys == { Key(f, l) : f \in 1..MaxFields, l \in 1..MaxLocales }

RfOff ==
    /\ pc = "off"
    /\ fields = <<>>
    /\ targetLocales = 0
    /\ fieldIx = 0
    /\ cancelRequested = FALSE
    /\ mounted = TRUE
    /\ jobs = <<>>
    /\ cursor = 0
    /\ workers = [job |-> {}, sleep |-> 0]
    /\ pendingWrites = <<>>
    /\ writeTimer = FALSE
    /\ timeouts = 0
    /\ flushes = {}
    /\ announced = {}
    /\ calls = {}
    /\ warned = {}
    /\ queued = {}
    /\ writeCount = [k \in Keys |-> 0]
    /\ faults = 0

CcOff ==
    /\ ccPc = "off"
    /\ attempt = 0
    /\ fetches = 0
    /\ outcomes = <<>>
    /\ waits = <<>>
    /\ ccResult = "pending"

TlOff ==
    /\ tlPc = "off"
    /\ textLength = 0
    /\ tlCursor = 0
    /\ tlWorkers = [job |-> {}, sleep |-> 0]
    /\ out = <<>>
    /\ sent = <<>>
    /\ arrivals = <<>>
    /\ tlResult = [kind |-> "pending", pieces |-> <<>>]

InitEnsure ==
    /\ fnPc = "ready"
    /\ fnArgs \in { <<o, t>> : o \in SeqsUpTo(TextChoices, MaxLen),
                               t \in { ResponseArray(1, m) : m \in 0..(MaxLen + 1) } }
    /\ fnRet = <<>>
    /\ StOff
    /\ RfOff
    /\ CcOff
    /\ TlOff

ApplyEnsure ==
    /\ fnPc = "ready"
    /\ fnRet' = ensureArrayLengthsMatch(fnArgs[1], fnArgs[2])
    /\ fnPc' = "done"
    /\ UNCHANGED <<fnArgs, stVars, rfVars, ccVars, tlVars>>

SpecEnsure == InitEnsure /\ [][ApplyEnsure]_vars

InitBatch ==
    /\ fnPc = "ready"
    /\ fnArgs \in SeqsUpTo(TextChoices, MaxLen + 1)
    /\ fnRet = <<>>
    /\ StOff
    /\ RfOff
    /\ CcOff
    /\ TlOff

ApplyBatch ==
    /\ fnPc = "ready"
    /\ fnRet' = Batches(fnArgs)
    /\ fnPc' = "done"
    /\ UNCHANGED <<fnArgs, stVars, rfVars, ccVars, tlVars>>

SpecBatch == InitBatch /\ [][ApplyBatch]_vars

(***************************************************************************)
(* translateStructuredTextValue (StructuredTextTranslation.ts 100-320).    *)
(*                                                                         *)
(* The braces of lines 205-319 nest as follows: the `for` of line 207 is   *)
(* closed by the brace of line 310, so length reconciliation, reassembly,  *)
(* block translation and the successful return (242-309) are inside the    *)
(* loop body; the `catch (jsonError)` of lines 310-315 follows the loop    *)
(* and guards nothing; the `catch (error)` of 316-319 closes the `try` of  *)
(* line 205.  When the loop runs out without returning, the function ends  *)
(* without a return statement.                                             *)
(***************************************************************************)
InitST ==
    /\ stPc = "called"
    /\ initialValue \in
          { Value(sh, c) : sh \in {"array", "envelope"},
                           c \in SeqsUpTo(NodeChoices, MaxNodes) }
          \cup { Value("null", <<>>), Value("object", <<>>) }
    /\ batchIx = 0
    /\ allTranslated = <<>>
    /\ reconstructed = <<>>
    /\ result = Pending
    /\ requested = <<>>
    /\ responses = <<>>
    /\ handed = <<>>
    /\ blockCalls = 0
    /\ onCompletes = 0
    /\ threw = "none"
    /\ lateRequests = {}
    /\ FnOff
    /\ RfOff
    /\ CcOff
    /\ TlOff

Return(v) ==
    /\ result' = Returned(v)
    /\ stPc' = "done"

Throw ==
    /\ result' = Thrown
    /\ stPc' = "done"

\* lines 113-213: from the call to the first `await chatComplete`.  `fault`
\* is the helper that throws on this run, if any; lines 113-203 are outside
\* the try of line 205.
Begin ==
    /\ stPc = "called"
    /\ \E fault \in {"none", "removeIds", "extractTextValues", "DisplayNames"} :
         IF fieldValue.shape # "array" \/ Len(fieldValue.children) = 0
         THEN /\ fault = "none"
              /\ Return(fieldValue)                           \* line 124
              /\ UNCHANGED <<batchIx, requested, threw>>
         ELSE IF fault = "removeIds" \/ fault = "extractTextValues"
         THEN /\ Throw                                        \* 130, 149
              /\ threw' = fault
              /\ UNCHANGED <<batchIx, requested>>
         ELSE IF Len(textValues) = 0
         THEN /\ fault = "none"
              /\ Return(fieldValue)                           \* line 153
              /\ UNCHANGED <<batchIx, requested, threw>>
         ELSE IF fault = "DisplayNames"
         THEN /\ Throw                                        \* 159-161
              /\ threw' = fault
              /\ UNCHANGED <<batchIx, requested>>
         ELSE /\ batchIx' = 1                                 \* 207-210
              /\ requested' = <<1>>
              /\ stPc' = "awaitChat"
              /\ UNCHANGED <<result, threw>>
    /\ UNCHANGED <<initialValue, allTranslated, reconstructed, responses,
                   handed, blockCalls, onCompletes, lateRequests,
                   fnVars, rfVars, ccVars, tlVars>>

\* line 210 rejects: caught at line 316
ChatThrows ==
    /\ stPc = "awaitChat"
    /\ responses' = Append(responses, "throw")
    /\ threw' = "chatComplete"
    /\ Return(fieldValue)                                     \* line 318
    /\ UNCHANGED <<initialValue, batchIx, allTranslated, reconstructed,
                   requested, handed, blockCalls, onCompletes, lateRequests,
                   fnVars, rfVars, ccVars, tlVars>>

\* lines 214-240 with a response JSON.parse rejects: `continue`
ChatUnparsable ==
    /\ stPc = "awaitChat"
    /\ responses' = Append(responses, "unparsable")
    /\ onCompletes' = onCompletes + 1
    /\ IF batchIx < Len(batches)
       THEN /\ batchIx' = batchIx + 1
            /\ requested' = Append(requested, batchIx + 1)
            /\ lateRequests' = IF cancelRequested
                               THEN lateRequests \cup {"chatComplete"}
                               ELSE lateRequests
            /\ UNCHANGED <<stPc, result>>
       ELSE /\ Return(Undefined)               \* the loop ends: no return
            /\ UNCHANGED <<batchIx, requested, lateRequests>>
    /\ UNCHANGED <<initialValue, allTranslated, reconstructed, handed,
                   blockCalls, threw, fnVars, rfVars, ccVars, tlVars>>

\* lines 214-231 with a response that parses to something not an array
ChatNonArray ==
    /\ stPc = "awaitChat"
    /\ responses' = Append(responses, "nonarray")
    /\ onCompletes' = onCompletes + 1
    /\ Return(fieldValue)                                     \* line 230
    /\ UNCHANGED <<initialValue, batchIx, allTranslated, reconstructed,
                   requested, handed, blockCalls, threw, lateRequests,
                   fnVars, rfVars, ccVars, tlVars>>

\* lines 214-234 with a response that parses to an array of m values, then
\* lines 242-309 up to `await translateFieldValue` or the return
ChatArray ==
    /\ stPc = "awaitChat"
    /\ \E m \in 0..(Len(batches[batchIx]) + 1),
          fault \in {"none", "reconstructObject"} :
         LET translatedValues == ResponseArray(batchIx, m)
             pushed == allTranslated \o translatedValues          \* 234
             processedTranslatedValues ==                         \* 243-250
                 IF Len(pushed) # Len(textValues)
                 THEN ensureArrayLengthsMatch(textValues, pushed)
                 ELSE pushed
             reconstructedObject ==                               \* 253-256
                 reconstructObject(fieldValueWithoutBlocks,
                                   processedTranslatedValues)
         IN  /\ responses' = Append(responses, "array")
             /\ onCompletes' = onCompletes + 1
             /\ allTranslated' = pushed
             /\ handed' = Append(handed, processedTranslatedValues)
             /\ threw' = IF fault = "none" THEN threw ELSE fault
             /\ IF fault = "reconstructObject"
                THEN /\ Return(fieldValue)                        \* 318
                     /\ UNCHANGED <<reconstructed, blockCalls, lateRequests>>
                ELSE IF Len(blockNodes) > 0
                THEN /\ reconstructed' = reconstructedObject      \* 267
                     /\ blockCalls' = blockCalls + 1
                     /\ lateRequests' =
                            IF cancelRequested
                            THEN lateRequests \cup {"translateFieldValue"}
                            ELSE lateRequests
                     /\ stPc' = "awaitBlocks"
                     /\ UNCHANGED result
                ELSE /\ Return(Finish(reconstructedObject))       \* 294-309
                     /\ UNCHANGED <<reconstructed, blockCalls, lateRequests>>
    /\ UNCHANGED <<initialValue, batchIx, requested, fnVars, rfVars, ccVars, tlVars>>

\* line 267 rejects: caught at line 316
BlocksThrow ==
    /\ stPc = "awaitBlocks"
    /\ threw' = "translateFieldValue"
    /\ Return(fieldValue)                                     \* line 318
    /\ UNCHANGED <<initialValue, batchIx, allTranslated, reconstructed,
                   requested, responses, handed, blockCalls, onCompletes,
                   lateRequests,
                   fnVars, rfVars, ccVars, tlVars>>

\* line 267 resolves: lines 282-309
BlocksReturn ==
    /\ stPc = "awaitBlocks"
    /\ \E fault \in {"none", "insertObjectAtIndex"} :
         /\ threw' = IF fault = "none" THEN threw ELSE fault
         /\ IF fault = "insertObjectAtIndex"
            THEN Return(fieldValue)                           \* line 318
            ELSE Return(Finish(InsertBlocks(reconstructed,
                                            translateFieldValue(blockNodes))))
    /\ UNCHANGED <<initialValue, batchIx, allTranslated, reconstructed,
                   requested, responses, handed, blockCalls, onCompletes,
                   lateRequests,
                   fnVars, rfVars, ccVars, tlVars>>

\* streamCallbacks.checkCancellation (clients.ts 243: the predicate of the
\* run) starts answering true while a remote call of the job is in flight
CancelST ==
    /\ stPc \in {"awaitChat", "awaitBlocks"}
    /\ ~cancelRequested
    /\ cancelRequested' = TRUE
    /\ UNCHANGED <<pc, fields, targetLocales, fieldIx, mounted, jobs, cursor,
                   workers, pendingWrites, writeTimer, timeouts, flushes,
                   announced, calls, warned, queued, writeCount, faults,
                   fnVars, stVars, ccVars, tlVars>>

NextST ==
    \/ Begin
    \/ ChatThrows
    \/ ChatUnparsable
    \/ ChatNonArray
    \/ ChatArray
    \/ BlocksThrow
    \/ BlocksReturn
    \/ CancelST

SpecST == InitST /\ [][NextST]_vars

(***************************************************************************)
(* Claims about translateStructuredTextValue (checked under SpecST).       *)
(***************************************************************************)
IsEnvelope(v) == v.shape = "envelope"
IsBareArray(v) == v.shape = "array"
AllBlocks(nodes) == \A i \in Indexes(nodes) : nodes[i].type = "block"

\* C2: on every return path the returned value is an envelope
\* {document:{children}, schema} iff initialValue is one, and a bare array
\* iff initialValue is a bare array.
C2_EnvelopeRoundTripOnEveryReturn ==
    (stPc = "done" /\ result.kind = "returned") =>
        /\ IsEnvelope(result.value) <=> IsEnvelope(initialValue)
        /\ IsBareArray(result.value) <=> IsBareArray(initialValue)

\* C3: whenever one of the steps 3-8 throws (id stripping, extraction,
\* locale names, batch request, reassembly, block translation, block
\* re-insertion), the call returns normally and returns the original,
\* untranslated initialValue.
C3_ThrowInSteps3To8ReturnsOriginal ==
    (stPc = "done" /\ threw # "none") => result = Returned(initialValue)

\* C4: for a non-empty document of block nodes only, the generic translator
\* is invoked on the block list and the returned document holds the
\* translated blocks (when nothing throws).
C4_BlockOnlyDocumentIsTranslated ==
    ( /\ stPc = "done"
      /\ threw = "none"
      /\ initialValue.shape \in {"array", "envelope"}
      /\ Len(initialValue.children) > 0
      /\ AllBlocks(initialValue.children) ) =>
        /\ blockCalls >= 1
        /\ result.kind = "returned"
        /\ Len(result.value.children) = Len(initialValue.children)
        /\ \A i \in Indexes(result.value.children) :
              result.value.children[i].translated

\* C5: with n >= 2 batches, length reconciliation and reassembly happen at
\* most once and only after a completion request was issued for every one
\* of the n batches (on runs where nothing throws); when every response is
\* a valid array, the call ends with exactly n requests made.
C5_ReassemblyOnceAfterAllBatches ==
    (Len(batches) >= 2 /\ threw = "none") =>
        /\ Len(handed) <= 1
        /\ handed # <<>> => Len(requested) = Len(batches)
        /\ ( /\ stPc = "done"
             /\ threw = "none"
             /\ Range(responses) = {"array"} ) =>
                 Len(requested) = Len(batches)

\* C6: when the response of a batch is not parsable JSON (and no response
\* is a non-array and nothing throws), the call does not throw and does not
\* give the field up: a request is issued for every later batch and the
\* call returns a document.
C6_UnparsableBatchIsSkippedOnly ==
    ( /\ stPc = "done"
      /\ threw = "none"
      /\ "unparsable" \in Range(responses)
      /\ Range(responses) \subseteq {"unparsable", "array"} ) =>
        /\ Len(requested) = Len(batches)
        /\ result.kind = "returned"
        /\ result.value.shape \in {"array", "envelope"}

\* C7: when a response parses to a non-array, the field is aborted: no
\* request for a later batch, no translated text applied, no block
\* translation started, and the original initialValue is returned.
C7_NonArrayAbortsFieldWithOriginal ==
    (stPc = "done" /\ "nonarray" \in Range(responses)) =>
        /\ responses[Len(responses)] = "nonarray"
        /\ Len(requested) = Len(responses)
        /\ handed = <<>>
        /\ blockCalls = 0
        /\ result = Returned(initialValue)

\* C8: every list handed to reconstructObject has exactly the length of the
\* extracted text-value list, whatever the batch outcomes before it.
C8_HandedListHasTextValuesLength ==
    \A k \in Indexes(handed) : Len(handed[k]) = Len(textValues)

\* C8 witness: reassembly reached after a skipped batch, with fewer
\* translated values than text values (the tail was padded).
C8_Witness ==
    /\ handed # <<>>
    /\ "unparsable" \in Range(responses)
    /\ Len(allTranslated) < Len(textValues)

\* the run ended on the success path: lines 242-309 ran without a throw
SuccessPath ==
    /\ stPc = "done"
    /\ threw = "none"
    /\ handed # <<>>
    /\ result.kind = "returned"

\* C11: on the success path, for every interleaving of block and non-block
\* nodes, the output has the node count of the input, every block node is
\* at the index it had in the input, the non-block nodes are the
\* reconstructed non-block nodes in their order, and no output node carries
\* an originalIndex.
C11_BlocksBackAtTheirIndexes ==
    SuccessPath =>
        LET inNodes == fieldValue.children
            outNodes == result.value.children
            outText == fieldValueWithoutBlocksOf(outNodes)
        IN  /\ Len(outNodes) = Len(inNodes)
            /\ \A i \in Indexes(inNodes) :
                  (outNodes[i].type = "block") <=> (inNodes[i].type = "block")
            /\ \A i \in Indexes(inNodes) :
                  inNodes[i].type = "block" => outNodes[i].translated
            /\ outText = reconstructObject(fieldValueWithoutBlocks,
                                           handed[Len(handed)])
            /\ \A i \in Indexes(outNodes) : outNodes[i].originalIndex = NoIndex

\* C11 witness: a success-path return for a document with a block node
\* between two text nodes.
C11_Witness ==
    /\ SuccessPath
    /\ Len(fieldValue.children) = 3
    /\ fieldValue.children[1].type # "block"
    /\ fieldValue.children[2].type = "block"
    /\ fieldValue.children[3].type # "block"

\* C12: once cancellation is signalled while a remote call of the job is in
\* flight, the job issues no further batch completion request and starts no
\* block sub-translation request.
C12_NoRemoteRequestAfterCancellation ==
    lateRequests = {}

\* the batch whose slice holds the k-th text value
BatchOf(k) ==
    CHOOSE b \in Indexes(batches) :
        /\ Len(Flatten(SubSeq(batches, 1, b - 1))) < k
        /\ k <= Len(Flatten(SubSeq(batches, 1, b)))

\* C19: in every list handed to reassembly, position k holds a string of
\* the response to the batch whose slice contains the k-th text value, or
\* the k-th original value itself.
C19_TranslatedListIsAligned ==
    \A n \in Indexes(handed) :
        \A k \in Indexes(handed[n]) :
            \/ /\ k <= Len(textValues)
               /\ handed[n][k] = textValues[k]
            \/ /\ k <= Len(textValues)
               /\ handed[n][k].body = "tr"
               /\ handed[n][k].b = BatchOf(k)

(***************************************************************************)
(* Claims about the pure functions.                                        *)
(***************************************************************************)
\* C9: ensureArrayLengthsMatch(original, translated) is translated followed
\* by the original values of the missing tail positions, each exactly the
\* original string, when translated is shorter; the prefix of length
\* Len(original) when it is longer; translated itself when equal.
\* (SpecEnsure)
C9_PadWithExactOriginalsOrTruncate ==
    fnPc = "done" =>
        LET originalValues == fnArgs[1]
            translatedValues == fnArgs[2]
        IN  /\ Len(translatedValues) < Len(originalValues) =>
                 fnRet = translatedValues \o
                         SubSeq(originalValues, Len(translatedValues) + 1,
                                Len(originalValues))
            /\ Len(translatedValues) > Len(originalValues) =>
                 fnRet = SubSeq(translatedValues, 1, Len(originalValues))
            /\ Len(translatedValues) = Len(originalValues) =>
                 fnRet = translatedValues

\* C10: the batches are non-empty slices whose concatenation in order is
\* the input list, and every batch of more than one item has a total string
\* length of at most 4800 (only a single item forms a batch above it).
\* (SpecBatch)
C10_BatchesPartitionWithinLimit ==
    fnPc = "done" =>
        /\ Flatten(fnRet) = fnArgs
        /\ \A k \in Indexes(fnRet) : Len(fnRet[k]) > 0
        /\ \A k \in Indexes(fnRet) :
              Len(fnRet[k]) > 1 => SumLen(fnRet[k]) <= BatchCharLimit
        /\ \A k \in Indexes(fnRet) :
              SumLen(fnRet[k]) > BatchCharLimit => Len(fnRet[k]) = 1

\* C10 witness: a list split into several batches, one of them a single
\* oversized item and one holding several items.
C10_Witness ==
    /\ fnPc = "done"
    /\ Len(fnRet) >= 2
    /\ \E k \in Indexes(fnRet) :
          Len(fnRet[k]) = 1 /\ SumLen(fnRet[k]) > BatchCharLimit
    /\ \E k \in Indexes(fnRet) : Len(fnRet[k]) > 1

(***************************************************************************)
(* translateRecordFields (clients.ts 100-281) with runPool (109-119),      *)
(* queueFieldWrite (126-129) and flushWrites (130-140).                    *)
(*                                                                         *)
(* The function and every worker, job and flushWrites activation are       *)
(* coroutines of one thread: an action is the code one of them runs from   *)
(* one await to the next.  options.checkCancellation is an opaque          *)
(* predicate; cancelRequested is its current answer.  The workers of       *)
(* runPool run the same closure and differ only in what they await, so     *)
(* they are kept as the set of awaited jobs and the count of sleepers.     *)
(***************************************************************************)
Min(a, b) == IF a < b THEN a ELSE b

Count(f) == Cardinality({ k \in DOMAIN f : f[k] })

\* how often the job of a key was started so far
Starts(key) == Cardinality({ c \in calls : c.key = key })

\* one more call of the translator or the host may fail on this run
MayFail == Count(fields) * targetLocales + faults < MaxLoad

\* one more job may fail on this run (one failing job fits in every run)
JobMayFail == Count(fields) * targetLocales + faults <= MaxLoad

InitRF ==
    /\ pc = "field"
    /\ fields \in UNION { [1..n -> BOOLEAN] : n \in 1..MaxFields }
    /\ targetLocales \in 0..MaxLocales
    /\ Count(fields) * targetLocales <= MaxLoad
    /\ fieldIx = 1
    /\ cancelRequested = FALSE
    /\ mounted = TRUE
    /\ jobs = <<>>
    /\ cursor = 0
    /\ workers = [job |-> {}, sleep |-> 0]
    /\ pendingWrites = <<>>
    /\ writeTimer = FALSE
    /\ timeouts = 0
    /\ flushes = {}
    /\ announced = {}
    /\ calls = {}
    /\ warned = {}
    /\ queued = {}
    /\ writeCount = [k \in Keys |-> 0]
    /\ faults = 0
    /\ FnOff
    /\ StOff
    /\ CcOff
    /\ TlOff

\* lines 126-129
queueFieldWrite(key) ==
    /\ pendingWrites' = IF key \in Range(pendingWrites) THEN pendingWrites
                        ELSE Append(pendingWrites, key)
    /\ IF ~writeTimer
       THEN writeTimer' = TRUE /\ timeouts' = timeouts + 1
       ELSE UNCHANGED <<writeTimer, timeouts>>
    /\ queued' = queued \cup {key}

\* flushWrites writing the first entry only and forgetting the others
flushWritesBegin_FirstEntryOnly(by) ==
    IF Len(pendingWrites) = 0
    THEN /\ writeTimer' = FALSE
         /\ UNCHANGED <<pendingWrites, flushes, writeCount>>
    ELSE /\ pendingWrites' = <<>>
         /\ writeTimer' = FALSE
         /\ IF ~mounted
            THEN UNCHANGED <<flushes, writeCount>>
            ELSE /\ flushes' = flushes \cup
                       {[by |-> by, entries |-> <<pendingWrites[1]>>,
                         phase |-> "set"]}
                 /\ writeCount' =
                       [writeCount EXCEPT ![pendingWrites[1]] = @ + 1]

\* lines 131-137: flushWrites from its call to its first await
flushWritesBegin(by) ==
    IF Len(pendingWrites) = 0
    THEN /\ writeTimer' = FALSE                               \* line 131
         /\ UNCHANGED <<pendingWrites, flushes, writeCount>>
    ELSE /\ pendingWrites' = <<>>                             \* 132-134
         /\ writeTimer' = FALSE
         /\ IF ~mounted
            THEN UNCHANGED <<flushes, writeCount>>            \* line 135
            ELSE /\ flushes' = flushes \cup
                       {[by |-> by, entries |-> pendingWrites, phase |-> "set"]}
                 /\ writeCount' =
                       [writeCount EXCEPT ![pendingWrites[1]] = @ + 1]

\* flushWrites returns before any await
flushWritesReturnsAtOnce == Len(pendingWrites) = 0 \/ ~mounted

\* lines 148-276: one round of the field loop, up to `await runPool`; or,
\* past the last field, lines 279-280.  flipAt > 0: checkCancellation()
\* turns true at the check before locale flipAt (line 213).
ProcessField ==
    /\ pc = "field"
    /\ IF fieldIx > Len(fields)
       THEN /\ flushWritesBegin("main")                       \* line 279
            /\ pc' = IF flushWritesReturnsAtOnce THEN "done" ELSE "finalFlush"
            /\ UNCHANGED <<fieldIx, cancelRequested, jobs, cursor, workers,
                           announced, calls>>
       ELSE IF cancelRequested
       THEN /\ pc' = "returned"                               \* line 155
            /\ UNCHANGED <<fieldIx, cancelRequested, jobs, cursor, workers,
                           announced, calls, pendingWrites, writeTimer,
                           flushes, writeCount>>
       ELSE IF ~fields[fieldIx]
       THEN /\ fieldIx' = fieldIx + 1                         \* 176-203
            /\ UNCHANGED <<pc, cancelRequested, jobs, cursor, workers,
                           announced, calls, pendingWrites, writeTimer,
                           flushes, writeCount>>
       ELSE \E flipAt \in 0..targetLocales :
              IF flipAt > 0
              THEN /\ cancelRequested' = TRUE                 \* 213-214
                   /\ announced' = announced \cup
                          { Key(fieldIx, l) : l \in 1..(flipAt - 1) }
                   /\ pc' = "returned"
                   /\ UNCHANGED <<fieldIx, jobs, cursor, workers, calls,
                                  pendingWrites, writeTimer, flushes,
                                  writeCount>>
              ELSE /\ announced' = announced \cup             \* 218-222
                          { Key(fieldIx, l) : l \in 1..targetLocales }
                   /\ jobs' = [l \in 1..targetLocales |-> Key(fieldIx, l)]
                   \* runPool 110-114: each worker runs to its first await
                   /\ cursor' = Min(targetLocales, PoolConcurrency)
                   /\ workers' =
                          [job |-> 0..(Min(targetLocales, PoolConcurrency) - 1),
                           sleep |-> 0]
                   /\ calls' = calls \cup
                          { [key |-> Key(fieldIx, w), afterCancel |-> FALSE,
                             n |-> Starts(Key(fieldIx, w)) + 1] :
                              w \in 1..Min(targetLocales, PoolConcurrency) }
                   /\ pc' = "pool"
                   /\ UNCHANGED <<fieldIx, cancelRequested, pendingWrites,
                                  writeTimer, flushes, writeCount>>
    /\ UNCHANGED <<fields, targetLocales, mounted, timeouts, warned, queued,
                   faults, fnVars, stVars, ccVars, tlVars>>

\* lines 252-268 after the await, then runPool line 115: job idx got its
\* translation and queues the write; its worker goes to sleep(60)
JobResolves(idx) ==
    /\ idx \in workers.job
    /\ queueFieldWrite(jobs[idx + 1])
    /\ workers' = [job |-> workers.job \ {idx}, sleep |-> workers.sleep + 1]
    /\ UNCHANGED <<pc, fields, targetLocales, fieldIx, cancelRequested, mounted,
                   jobs, cursor, flushes, announced, calls, warned, writeCount,
                   faults, fnVars, stVars, ccVars, tlVars>>

\* JobRejects with the rejection leaving the job, the worker and runPool:
\* the await of line 276 rejects
JobRejects_AbortsRun(idx) ==
    /\ idx \in workers.job
    /\ JobMayFail
    /\ faults' = faults + 1
    /\ warned' = warned \cup {jobs[idx + 1]}
    /\ workers' = [workers EXCEPT !.job = @ \ {idx}]
    /\ pc' = "rejected"
    /\ UNCHANGED <<fields, targetLocales, fieldIx, cancelRequested, mounted,
                   jobs, cursor, pendingWrites, writeTimer, timeouts, flushes,
                   announced, calls, queued, writeCount, fnVars, stVars, ccVars, tlVars>>

\* lines 269-272, then runPool line 115: translateFieldValue threw
JobRejects(idx) ==
    /\ idx \in workers.job
    /\ JobMayFail
    /\ faults' = faults + 1
    /\ warned' = warned \cup {jobs[idx + 1]}
    /\ workers' = [job |-> workers.job \ {idx}, sleep |-> workers.sleep + 1]
    /\ UNCHANGED <<pc, fields, targetLocales, fieldIx, cancelRequested, mounted,
                   jobs, cursor, pendingWrites, writeTimer, timeouts, flushes,
                   announced, calls, queued, writeCount, fnVars, stVars, ccVars, tlVars>>

\* WorkerWakes with the cursor advanced and the job not run
WorkerWakes_SkipsJob ==
    /\ workers.sleep > 0
    /\ IF cursor < Len(jobs)
       THEN /\ cursor' = cursor + 1
            /\ UNCHANGED <<workers, calls>>
       ELSE /\ workers' = [workers EXCEPT !.sleep = @ - 1]
            /\ UNCHANGED <<cursor, calls>>
    /\ UNCHANGED <<pc, fields, targetLocales, fieldIx, cancelRequested, mounted,
                   jobs, pendingWrites, writeTimer, timeouts, flushes,
                   announced, warned, queued, writeCount, faults, fnVars,
                   stVars, ccVars, tlVars>>

\* runPool lines 112-114 after sleep(60): the next job, or the worker ends
WorkerWakes ==
    /\ workers.sleep > 0
    /\ IF cursor < Len(jobs)
       THEN /\ workers' = [job |-> workers.job \cup {cursor},
                           sleep |-> workers.sleep - 1]
            /\ cursor' = cursor + 1
            /\ calls' = calls \cup
                   {[key |-> jobs[cursor + 1], afterCancel |-> cancelRequested,
                     n |-> Starts(jobs[cursor + 1]) + 1]}
       ELSE /\ workers' = [workers EXCEPT !.sleep = @ - 1]
            /\ UNCHANGED <<cursor, calls>>
    /\ UNCHANGED <<pc, fields, targetLocales, fieldIx, cancelRequested, mounted,
                   jobs, pendingWrites, writeTimer, timeouts, flushes,
                   announced, warned, queued, writeCount, faults, fnVars,
                   stVars, ccVars, tlVars>>

\* line 118 resolves (every worker ended), then line 277 up to its await
PoolResolves ==
    /\ pc = "pool"
    /\ workers.job = {} /\ workers.sleep = 0
    /\ flushWritesBegin("main")
    /\ IF flushWritesReturnsAtOnce
       THEN pc' = "field" /\ fieldIx' = fieldIx + 1
       ELSE pc' = "fieldFlush" /\ UNCHANGED fieldIx
    /\ UNCHANGED <<fields, targetLocales, cancelRequested, mounted, jobs,
                   cursor, workers, timeouts, announced, calls, warned, queued,
                   faults, fnVars, stVars, ccVars, tlVars>>

\* the timeout of line 128 fires: flushWrites up to its first await
TimerFires ==
    /\ timeouts > 0
    /\ timeouts' = timeouts - 1
    /\ flushWritesBegin("timer")
    /\ UNCHANGED <<pc, fields, targetLocales, fieldIx, cancelRequested, mounted,
                   jobs, cursor, workers, announced, calls, warned, queued,
                   faults, fnVars, stVars, ccVars, tlVars>>

\* line 137 resolves: the pacing sleep of line 138 starts
WriteResolves(a) ==
    /\ a \in flushes
    /\ a.phase = "set"
    /\ flushes' = (flushes \ {a}) \cup {[a EXCEPT !.phase = "sleep"]}
    /\ UNCHANGED <<pc, fields, targetLocales, fieldIx, cancelRequested, mounted,
                   jobs, cursor, workers, pendingWrites, writeTimer, timeouts,
                   announced, calls, warned, queued, writeCount, faults,
                   fnVars, stVars, ccVars, tlVars>>

\* line 137 rejects: flushWrites rejects with its other entries unwritten;
\* awaited by lines 277 / 279, the rejection leaves translateRecordFields
WriteRejects(a) ==
    /\ a \in flushes
    /\ a.phase = "set"
    /\ MayFail
    /\ faults' = faults + 1
    /\ flushes' = flushes \ {a}
    /\ pc' = IF a.by = "main" THEN "rejected" ELSE pc
    /\ UNCHANGED <<fields, targetLocales, fieldIx, cancelRequested, mounted,
                   jobs, cursor, workers, pendingWrites, writeTimer, timeouts,
                   announced, calls, warned, queued, writeCount, fnVars, stVars, ccVars, tlVars>>

\* line 138 ends: the next entry (136-137), or flushWrites returns and the
\* function awaiting it goes on (277 -> 148, 279 -> 280)
PaceEnds(a) ==
    /\ a \in flushes
    /\ a.phase = "sleep"
    /\ IF Len(a.entries) > 1
       THEN /\ flushes' = (flushes \ {a}) \cup
                   {[a EXCEPT !.entries = Tail(a.entries), !.phase = "set"]}
            /\ writeCount' = [writeCount EXCEPT ![a.entries[2]] = @ + 1]
            /\ UNCHANGED <<pc, fieldIx>>
       ELSE /\ flushes' = flushes \ {a}
            /\ UNCHANGED writeCount
            /\ IF a.by # "main" THEN UNCHANGED <<pc, fieldIx>>
               ELSE IF pc = "fieldFlush"
               THEN pc' = "field" /\ fieldIx' = fieldIx + 1
               ELSE pc' = "done" /\ UNCHANGED fieldIx         \* line 280
    /\ UNCHANGED <<fields, targetLocales, cancelRequested, mounted, jobs,
                   cursor, workers, pendingWrites, writeTimer, timeouts,
                   announced, calls, warned, queued, faults, fnVars, stVars, ccVars, tlVars>>

\* options.checkCancellation() starts answering true
Cancel ==
    /\ pc \notin {"done", "returned", "rejected"}
    /\ ~cancelRequested
    /\ cancelRequested' = TRUE
    /\ UNCHANGED <<pc, fields, targetLocales, fieldIx, mounted, jobs, cursor,
                   workers, pendingWrites, writeTimer, timeouts, flushes,
                   announced, calls, warned, queued, writeCount, faults,
                   fnVars, stVars, ccVars, tlVars>>

\* the host takes the form away: ctx.formValues is gone (line 135)
Unmount ==
    /\ pc \notin {"done", "returned", "rejected"}
    /\ mounted
    /\ MayFail
    /\ faults' = faults + 1
    /\ mounted' = FALSE
    /\ UNCHANGED <<pc, fields, targetLocales, fieldIx, cancelRequested, jobs,
                   cursor, workers, pendingWrites, writeTimer, timeouts,
                   flushes, announced, calls, warned, queued, writeCount,
                   fnVars, stVars, ccVars, tlVars>>

Next ==
    \/ ProcessField
    \/ \E idx \in workers.job : JobResolves(idx)
    \/ \E idx \in workers.job : JobRejects(idx)
    \/ WorkerWakes
    \/ PoolResolves
    \/ TimerFires
    \/ \E a \in flushes : WriteResolves(a)
    \/ \E a \in flushes : WriteRejects(a)
    \/ \E a \in flushes : PaceEnds(a)
    \/ Cancel
    \/ Unmount

Spec == InitRF /\ [][Next]_vars

\* C1: no job calls translateFieldValue once checkCancellation() answers
\* true: every call of a job was made while the predicate was still false.
C1_NoJobStartsAfterCancellation ==
    \A c \in calls : ~c.afterCancel

\* C13: in every reachable state of runPool at most 3 jobs are in flight
\* (started and not yet settled).
C13_AtMostThreeJobsInFlight ==
    Cardinality(workers.job) <= 3

\* C13 witness: more jobs than workers; one job settled, its worker took
\* the fourth job, and three jobs are in flight again.
C13_Witness ==
    /\ pc = "pool"
    /\ Len(jobs) = 4
    /\ cursor = 4
    /\ Cardinality(workers.job) = 3

\* the keys of the jobs of the run: eligible field x target locale
JobKeys == { Key(f, l) : f \in { g \in DOMAIN fields : fields[g] },
                         l \in 1..targetLocales }

\* the keys an activation of flushWrites still holds
Held == UNION { Range(a.entries) : a \in flushes }

\* C14: a job whose translateFieldValue throws aborts neither the pool nor
\* the run (the host being mounted and its setter not failing): no write is
\* queued for the failed key, and when the run ends every job of every
\* field was started, every job that did not fail queued its output, and
\* every queued output was handed to the host or is held by a flush.
C14_FailedJobAbortsNothing ==
    (warned # {} /\ faults = Cardinality(warned)) =>
        /\ pc # "rejected"
        /\ warned \cap queued = {}
        /\ pc = "done" =>
              /\ { c.key : c \in calls } = JobKeys
              /\ queued = JobKeys \ warned
              /\ \A k \in queued : writeCount[k] >= 1 \/ k \in Held

\* C14 witness: four jobs of one field, the first one failed; the run ended
\* with the three others written.
C14_Witness ==
    /\ pc = "done"
    /\ targetLocales = 4
    /\ warned = {Key(1, 1)}
    /\ faults = 1
    /\ \A l \in 2..4 : writeCount[Key(1, l)] = 1

\* C22: runPool starts no job twice and skips none: a job index below the
\* cursor was started exactly once, and whenever no runPool is awaited no
\* worker is left, every job of the list and of the fields before was
\* started exactly once, and every started job has settled (queued its
\* write or raised the failure warning).
C22_EveryJobStartedOnceAndSettled ==
    /\ \A c \in calls : c.n = 1
    /\ pc \in {"pool", "fieldFlush"} =>
          \A i \in 1..cursor : Starts(jobs[i]) = 1
    /\ pc # "pool" =>
          /\ workers = [job |-> {}, sleep |-> 0]
          /\ cursor = Len(jobs)
          /\ \A c \in calls : c.key \in queued \cup warned
          /\ \A i \in Indexes(jobs) : Starts(jobs[i]) = 1
          /\ \A f \in 1..Min(fieldIx - 1, Len(fields)), l \in 1..targetLocales :
                fields[f] => Starts(Key(f, l)) = 1

\* C22 witness: runPool resolved for a list of four jobs, the fourth taken
\* from the shared cursor by a worker that had finished another job.
C22_Witness ==
    /\ pc = "fieldFlush"
    /\ Len(jobs) = 4
    /\ cursor = 4

\* C21: host writes are serialized: at most one activation of flushWrites
\* is inside its write loop, so at most one ctx.setFieldValue call is in
\* flight and no write starts during the pacing delay of another.
C21_HostWritesAreSerialized ==
    /\ Cardinality(flushes) <= 1
    /\ Cardinality({ a \in flushes : a.phase = "set" }) <= 1

\* C24, first part: no failing remote call or host write makes the promise
\* of translateRecordFields reject.
RunNeverRejects == pc # "rejected"

\* C24, second part: a failing write does not keep the other entries of its
\* flush from the host: while the form is mounted every queued key is still
\* pending, or held by a running flush, or was passed to ctx.setFieldValue.
NoQueuedEntryLost ==
    mounted =>
        \A k \in queued :
            k \in Range(pendingWrites) \/ k \in Held \/ writeCount[k] >= 1

\* C24: no failure is fatal to a run of translateRecordFields: the promise
\* never rejects, and a rejected ctx.setFieldValue does not prevent the
\* other queued entries of the same flush from being written.
C24_NoFailureIsFatal ==
    /\ RunNeverRejects
    /\ NoQueuedEntryLost

(***************************************************************************)
(* The run with a host that stays mounted and whose setFieldValue always   *)
(* resolves, over item types whose fields are all translated (a skipped    *)
(* field queues nothing).  Timers fire, sleeps end and pending promises    *)
(* settle: every step of the event loop that is enabled is eventually      *)
(* taken.                                                                  *)
(***************************************************************************)
InitHostOk ==
    /\ InitRF
    /\ \A f \in DOMAIN fields : fields[f]

NextHostOk ==
    \/ ProcessField
    \/ \E idx \in workers.job : JobResolves(idx)
    \/ \E idx \in workers.job : JobRejects(idx)
    \/ WorkerWakes
    \/ PoolResolves
    \/ TimerFires
    \/ \E a \in flushes : WriteResolves(a)
    \/ \E a \in flushes : PaceEnds(a)
    \/ Cancel

EventLoopRuns ==
    /\ WF_vars(ProcessField)
    /\ WF_vars(\E idx \in workers.job : JobResolves(idx) \/ JobRejects(idx))
    /\ WF_vars(WorkerWakes)
    /\ WF_vars(PoolResolves)
    /\ WF_vars(TimerFires)
    /\ WF_vars(\E a \in flushes : WriteResolves(a))
    /\ WF_vars(\E a \in flushes : PaceEnds(a))

SpecHostOk == InitHostOk /\ [][NextHostOk]_vars /\ EventLoopRuns

\* C15: with a mounted form and a setter that does not fail, every value a
\* successful job put in the pending-write map is eventually passed to
\* ctx.setFieldValue under its key, and never more than once.  (queued and
\* writeCount only grow, so "every queued key is eventually written" is
\* "from some moment on every queued key has been written".)
C15_QueuedValueWrittenExactlyOnce ==
    /\ [](\A k \in Keys : writeCount[k] <= 1)
    /\ <>[](\A k \in queued : writeCount[k] = 1)

\* C15 witness: a debounce-timer flush took two queued values and has
\* written the second one while the pool of the field is still running.
C15_Witness ==
    /\ pc = "pool"
    /\ \E a \in flushes :
          /\ a.by = "timer"
          /\ Len(a.entries) = 1
          /\ \E k \in queued : k # a.entries[1] /\ writeCount[k] = 1
          /\ writeCount[a.entries[1]] = 1

\* C23: every (field, locale) pair announced through options.onStart
\* eventually has its job at a terminal outcome: from some moment on every
\* announced key has its write queued or its failure warning raised.
\* (announced, queued and warned only grow.)
C23_AnnouncedJobReachesOutcome ==
    <>[](announced \subseteq queued \cup warned)

\* C20: when translateRecordFields resolves after the 'Translations
\* completed.' notice, no activation of flushWrites is still running: every
\* ctx.setFieldValue call for a queued value has completed.
C20_NoWriteOutstandingAtCompletion ==
    pc = "done" => flushes = {}

(***************************************************************************)
(* chatComplete (openaiProxy.ts 6-56).  An action is the code from one     *)
(* await to the next.  fetch() rejects with a TypeError on a transport     *)
(* failure; resp.json() rejects with a SyntaxError on a body that is not   *)
(* JSON and with a TypeError when reading the body fails; the text fields  *)
(* of a parsed answer are strings.                                         *)
(***************************************************************************)
MaxAttempts == 3
BackoffBaseMs == 300
transientStatus == {408, 429, 500, 502, 503, 504}

\* the statuses the proxy answers with
Statuses == {200, 201, 400, 401, 404} \cup transientStatus

\* resp.ok
Ok(status) == status \in 200..299

Status(status) == [kind |-> "status", status |-> status]
Failure(kind) == [kind |-> kind, status |-> 0]

InitChat ==
    /\ ccPc = "fetch"                                         \* line 27
    /\ attempt = 1
    /\ fetches = 1
    /\ outcomes = <<>>
    /\ waits = <<>>
    /\ ccResult = "pending"
    /\ FnOff
    /\ StOff
    /\ RfOff
    /\ TlOff

\* lines 34-35 / 49-50: the backoff is started
Backoff ==
    /\ waits' = Append(waits, BackoffBaseMs * attempt)
    /\ ccPc' = "backoff"
    /\ UNCHANGED ccResult

\* lines 52 / 38 + 52: the error leaves the function
ThrowErr ==
    /\ ccResult' = "thrown"
    /\ ccPc' = "done"
    /\ UNCHANGED waits

\* FetchResolves retrying every non-2xx status
FetchResolves_RetriesEveryError(status) ==
    /\ ccPc = "fetch"
    /\ IF Ok(status)
       THEN /\ ccPc' = "json"
            /\ UNCHANGED <<outcomes, waits, ccResult>>
       ELSE /\ outcomes' = Append(outcomes, Status(status))
            /\ IF attempt < MaxAttempts
               THEN Backoff
               ELSE /\ ccPc' = "text"
                    /\ UNCHANGED <<waits, ccResult>>
    /\ UNCHANGED <<attempt, fetches, fnVars, stVars, rfVars, tlVars>>

\* line 27 resolves with a response: lines 32-40
FetchResolves(status) ==
    /\ ccPc = "fetch"
    /\ IF Ok(status)
       THEN /\ ccPc' = "json"                                 \* line 40
            /\ UNCHANGED <<outcomes, waits, ccResult>>
       ELSE /\ outcomes' = Append(outcomes, Status(status))
            /\ IF status \in transientStatus /\ attempt < MaxAttempts
               THEN Backoff                                   \* 33-35
               ELSE /\ ccPc' = "text"                         \* line 37
                    /\ UNCHANGED <<waits, ccResult>>
    /\ UNCHANGED <<attempt, fetches, fnVars, stVars, rfVars, tlVars>>

\* FetchRejects with no retry of a transport failure
FetchRejects_ThrowsAtOnce ==
    /\ ccPc = "fetch"
    /\ outcomes' = Append(outcomes, Failure("TypeError"))
    /\ ThrowErr
    /\ UNCHANGED <<attempt, fetches, fnVars, stVars, rfVars, tlVars>>

\* line 27 rejects (TypeError): lines 45-52
FetchRejects ==
    /\ ccPc = "fetch"
    /\ outcomes' = Append(outcomes, Failure("TypeError"))
    /\ IF attempt < MaxAttempts THEN Backoff ELSE ThrowErr
    /\ UNCHANGED <<attempt, fetches, fnVars, stVars, rfVars, tlVars>>

\* line 37 settles (a rejection gives ''): line 38 throws, line 52 rethrows
TextSettles ==
    /\ ccPc = "text"
    /\ ThrowErr
    /\ UNCHANGED <<attempt, fetches, outcomes, fnVars, stVars, rfVars, tlVars>>

\* line 40 resolves: lines 41-44 return the text, or ''
JsonResolves ==
    /\ ccPc = "json"
    /\ outcomes' = Append(outcomes, Failure("none"))
    /\ ccResult' = "string"
    /\ ccPc' = "done"
    /\ UNCHANGED <<attempt, fetches, waits, fnVars, stVars, rfVars, tlVars>>

\* line 40 rejects: lines 45-52
JsonRejects(kind) ==
    /\ ccPc = "json"
    /\ outcomes' = Append(outcomes, Failure(kind))
    /\ IF kind = "TypeError" /\ attempt < MaxAttempts THEN Backoff ELSE ThrowErr
    /\ UNCHANGED <<attempt, fetches, fnVars, stVars, rfVars, tlVars>>

\* the timeout of line 34 / 49 fires: `continue`, lines 25-27
BackoffEnds ==
    /\ ccPc = "backoff"
    /\ attempt' = attempt + 1
    /\ fetches' = fetches + 1
    /\ ccPc' = "fetch"
    /\ UNCHANGED <<outcomes, waits, ccResult, fnVars, stVars, rfVars, tlVars>>

NextChat ==
    \/ \E status \in Statuses : FetchResolves(status)
    \/ FetchRejects
    \/ TextSettles
    \/ JsonResolves
    \/ \E kind \in {"SyntaxError", "TypeError"} : JsonRejects(kind)
    \/ BackoffEnds

\* the promises of fetch, text() and json() settle and the timeout fires
SpecChat == InitChat /\ [][NextChat]_vars /\ WF_vars(NextChat)

\* the attempt ended in a failure the code retries
Retryable(o) ==
    \/ o.kind = "TypeError"
    \/ o.kind = "status" /\ o.status \in transientStatus

\* C16: chatComplete makes at most 3 HTTP requests and always ends, with a
\* string returned or an error thrown; when every attempt failed with a
\* retryable status or a transport failure, exactly 3 requests were made
\* and the error is thrown.
C16_AtMostThreeRequestsAndTerminates ==
    /\ [](fetches <= 3)
    /\ <>(ccPc = "done")
    /\ [](ccPc = "done" => ccResult \in {"string", "thrown"})
    /\ []( ( /\ ccPc = "done"
             /\ \A k \in Indexes(outcomes) : Retryable(outcomes[k]) ) =>
           (fetches = 3 /\ ccResult = "thrown") )

\* C16 witness: three attempts, each failed retryably (a status and a
\* transport failure among them), and the call ended.
C16_Witness ==
    /\ ccPc = "done"
    /\ Len(outcomes) = 3
    /\ \A k \in Indexes(outcomes) : Retryable(outcomes[k])
    /\ outcomes[1].kind = "status"
    /\ outcomes[2].kind = "TypeError"

\* C17: a non-2xx status outside {408, 429, 500, 502, 503, 504} ends the
\* call with a throw and no further request or wait; a retryable failure on
\* attempt k < 3 is followed by a wait of 300 x k ms (and by no other wait)
\* and then by a further request.
C17_RetriesOnlyTransientFailures ==
    /\ [](\A k \in Indexes(outcomes) :
            (outcomes[k].kind = "status" /\ ~Retryable(outcomes[k])) =>
                /\ k = Len(outcomes)
                /\ fetches = k
                /\ Len(waits) = k - 1
                /\ ccPc = "done" => ccResult = "thrown")
    /\ [](\A k \in Indexes(outcomes) :
            (k < 3 /\ Retryable(outcomes[k])) =>
                /\ Len(waits) >= k
                /\ waits[k] = 300 * k)
    /\ [](Len(waits) <= 2)
    /\ \A k \in 1..2 :
          [](( /\ Len(outcomes) >= k
               /\ Retryable(outcomes[k]) ) => <>(fetches >= k + 1))

\* C17 witness: 300 ms then 600 ms were waited and the third attempt got a
\* status that is not retried.
C17_Witness ==
    /\ ccPc = "done"
    /\ waits = <<300, 600>>
    /\ outcomes[3] = Status(404)

(***************************************************************************)
(* chunkText and translateLarge (unnamed/part_000 1-35).  The text is its  *)
(* length; a chunk is the slice [from, to) of it.  The two workers run the *)
(* same closure and are kept as the set of chunk indexes awaited and the   *)
(* count of workers in the pacing sleep.  out.join('\n') is kept as the    *)
(* list of the joined pieces, a hole of `out` joining as ''.               *)
(***************************************************************************)
ChunkSize == 3000
LargeConcurrency == 2

\* chunkText(s, size), lines 1-5
chunkText(length, size) ==
    [k \in 1..((length + size - 1) \div size) |->
        [from |-> (k - 1) * size, to |-> Min(k * size, length)]]

parts == chunkText(textLength, ChunkSize)

\* the lengths a text is drawn from: around every multiple of the chunk size
TextLengths ==
    {0} \cup { ChunkSize * k - d : k \in 1..MaxChunks,
                                   d \in {0, 1, ChunkSize - 1} }

Hole == [kind |-> "hole", from |-> 0, to |-> 0]
EmptyPiece == [kind |-> "empty", from |-> 0, to |-> 0]
\* what chat answers for `Part idx+1/n: parts[idx]`
Answer(part) == [kind |-> "answer", from |-> part.from, to |-> part.to]

\* (await chat(...)) || ''
Stored(idx, empty) == IF empty THEN EmptyPiece ELSE Answer(parts[idx + 1])

\* out.join('\n'), line 34
Join(o) == [k \in Indexes(o) |-> IF o[k] = Hole THEN EmptyPiece ELSE o[k]]

InitLarge ==
    /\ tlPc = "running"
    /\ textLength \in TextLengths
    \* lines 14-26: both workers run to their first await
    /\ tlCursor = Min(Len(parts), LargeConcurrency)
    /\ tlWorkers = [job |-> 0..(Min(Len(parts), LargeConcurrency) - 1),
                    sleep |-> 0]
    /\ out = [k \in Indexes(parts) |-> Hole]
    /\ sent = [k \in Indexes(parts) |->
                  IF k <= LargeConcurrency THEN 1 ELSE 0]
    /\ arrivals = <<>>
    /\ tlResult = [kind |-> "pending", pieces |-> <<>>]
    /\ FnOff
    /\ StOff
    /\ RfOff
    /\ CcOff

\* LargeChatResolves storing the answer at the next free position of out
LargeChatResolves_Push(idx, empty) ==
    /\ idx \in tlWorkers.job
    /\ out' = [out EXCEPT ![Len(arrivals) + 1] = Stored(idx, empty)]
    /\ arrivals' = Append(arrivals, [idx |-> idx, empty |-> empty])
    /\ tlWorkers' = [job |-> tlWorkers.job \ {idx},
                     sleep |-> tlWorkers.sleep + 1]
    /\ UNCHANGED <<tlPc, textLength, tlCursor, sent, tlResult, fnVars, stVars,
                   rfVars, ccVars>>

\* line 26 resolves for chunk idx: lines 25-28
LargeChatResolves(idx, empty) ==
    /\ idx \in tlWorkers.job
    /\ out' = [out EXCEPT ![idx + 1] = Stored(idx, empty)]
    /\ arrivals' = Append(arrivals, [idx |-> idx, empty |-> empty])
    /\ tlWorkers' = [job |-> tlWorkers.job \ {idx},
                     sleep |-> tlWorkers.sleep + 1]
    /\ UNCHANGED <<tlPc, textLength, tlCursor, sent, tlResult, fnVars, stVars,
                   rfVars, ccVars>>

\* line 26 rejects: the worker rejects, and with it Promise.all (line 33)
\* and translateLarge; the other worker goes on
LargeChatRejects(idx) ==
    /\ idx \in tlWorkers.job
    /\ tlWorkers' = [tlWorkers EXCEPT !.job = @ \ {idx}]
    /\ IF tlPc = "running"
       THEN /\ tlPc' = "done"
            /\ tlResult' = [kind |-> "thrown", pieces |-> <<>>]
       ELSE UNCHANGED <<tlPc, tlResult>>
    /\ UNCHANGED <<textLength, tlCursor, out, sent, arrivals, fnVars, stVars,
                   rfVars, ccVars>>

\* the sleep of line 28 ends: lines 19-26 for the next chunk, or the worker
\* ends
LargePaceEnds ==
    /\ tlWorkers.sleep > 0
    /\ IF tlCursor < Len(parts)
       THEN /\ tlWorkers' = [job |-> tlWorkers.job \cup {tlCursor},
                             sleep |-> tlWorkers.sleep - 1]
            /\ tlCursor' = tlCursor + 1
            /\ sent' = [sent EXCEPT ![tlCursor + 1] = @ + 1]
       ELSE /\ tlWorkers' = [tlWorkers EXCEPT !.sleep = @ - 1]
            /\ UNCHANGED <<tlCursor, sent>>
    /\ UNCHANGED <<tlPc, textLength, out, arrivals, tlResult, fnVars, stVars,
                   rfVars, ccVars>>

\* line 33 resolves (both workers ended): line 34
LargeReturns ==
    /\ tlPc = "running"
    /\ tlWorkers.job = {} /\ tlWorkers.sleep = 0
    /\ tlResult' = [kind |-> "returned", pieces |-> Join(out)]
    /\ tlPc' = "done"
    /\ UNCHANGED <<textLength, tlCursor, tlWorkers, out, sent, arrivals,
                   fnVars, stVars, rfVars, ccVars>>

NextLarge ==
    \/ \E idx \in tlWorkers.job, empty \in BOOLEAN :
          LargeChatResolves(idx, empty)
    \/ \E idx \in tlWorkers.job : LargeChatRejects(idx)
    \/ LargePaceEnds
    \/ LargeReturns

SpecLarge == InitLarge /\ [][NextLarge]_vars

\* C18: translateLarge sends no chunk to chat twice, and when it returns,
\* every chunk was sent exactly once and the result is the answers joined
\* in chunk-index order (piece k is what chat answered for chunk k),
\* whatever the order in which the chat calls completed.
C18_ChunksSentOnceJoinedInIndexOrder ==
    /\ \A k \in Indexes(sent) : sent[k] <= 1
    /\ tlResult.kind = "returned" =>
          /\ \A k \in Indexes(parts) : sent[k] = 1
          /\ Len(tlResult.pieces) = Len(parts)
          /\ \A n \in Indexes(arrivals) :
                tlResult.pieces[arrivals[n].idx + 1] =
                    IF arrivals[n].empty THEN EmptyPiece
                    ELSE Answer(parts[arrivals[n].idx + 1])
          /\ { arrivals[n].idx + 1 : n \in Indexes(arrivals) } = Indexes(parts)

\* C18 witness: three chunks or more, the answer for chunk 2 arrived before
\* the answer for chunk 1, and the call returned.
C18_Witness ==
    /\ tlResult.kind = "returned"
    /\ Len(parts) >= 3
    /\ arrivals[1].idx = 1
    /\ ~arrivals[1].empty
    /\ ~arrivals[2].empty

====
